---- MODULE Spec2Model ----
(***************************************************************************)
(* Chunked upload reassembly of agent-rag-service.                         *)
(*                                                                         *)
(* POST /upload/chunks (api/v1/endpoints/upload.py) hands every request to *)
(* services/v1/upload_service.py::upload_file_chunks, a coroutine.  The    *)
(* coroutines of concurrent requests interleave at every await; what lies  *)
(* between two awaits is one atomic action here.  The staging area is the  *)
(* file system below upload_temp_dir: chunks/chunk_<i> per file_id and the *)
(* merged file <file_id>/<file_name>.                                      *)
(*                                                                         *)
(* Files are byte sequences.  Python's "wb" truncates on open, and every   *)
(* open file object writes at its own offset, so a write from an older     *)
(* handle into a file truncated meanwhile leaves a hole of zero bytes.     *)
(* aiofiles writes are modelled write-through: the bytes a reader can see  *)
(* are always a prefix of what the writer has handed over so far.          *)
(***************************************************************************)
EXTENDS Integers, Sequences, FiniteSets, TLC

\* ---------------------------------------------------------------- bounds
MaxTotal == 3
MaxReq   == 3
NumSlots == 2
NumFiles == 1
MaxDocs  == 2

\* ---------------------------------------------------------------- domains
FileIds  == 1..NumFiles
\* a first and a later submission with headers of their own (FreeSpec)
Submissions == {"first", "later"}
\* identifiers that uuid.uuid4() can return, one per submission
Uuids    == (NumFiles + 1)..(NumFiles + Cardinality(Submissions))
\* every upload identifier: sent by a client or generated
AllIds   == FileIds \cup Uuids
\* no x-file-id header
NoId     == 0
Slots    == 1..NumSlots
Totals   == 1..MaxTotal
Indexes  == 0..(MaxTotal - 1)
NoName   == ""
\* one name with a supported extension, one without (SUPPORTED_EXTENSIONS)
FileNames == {"a.txt", "b.bin"}
\* request bodies as the pieces request.stream() yields, one byte a piece;
\* no body is a prefix of another, 0 is the byte of a hole
Bodies   == {<<1, 2>>, <<3>>}

VARIABLES chunks, merged, index, req, nreq, log, session,
          scall, queries

\* the tool or endpoint the agent called last and the queries that call
\* sent to the index
svars == <<scall, queries>>

vars == <<chunks, merged, index, req, nreq, log, session, svars>>

\* ---------------------------------------------------------------- files
NoFile == [exists |-> FALSE, data |-> <<>>]

EmptyFile == [exists |-> TRUE, data |-> <<>>]

Max(a, b) == IF a >= b THEN a ELSE b

\* file.write(bytes) of a handle whose offset is pos
WriteAt(file, pos, bytes) ==
  LET n == Max(Len(file.data), pos + Len(bytes))
  IN  [exists |-> TRUE,
       data   |-> [k \in 1..n |->
                     IF k > pos /\ k <= pos + Len(bytes) THEN bytes[k - pos]
                     ELSE IF k <= Len(file.data) THEN file.data[k]
                     ELSE 0]]

\* SUPPORTED_EXTENSIONS.get(file_extension.lower())
get_loader(name) == name = "a.txt"

\* ---------------------------------------------------------------- responses
Resp(status, complete, missing) ==
  [status |-> status, complete |-> complete, missing |-> missing]

RespPartial    == Resp(200, FALSE, -1)
RespComplete   == Resp(200, TRUE, -1)
RespNoFilename == Resp(400, FALSE, -1)
RespMissing_one_based(i) == Resp(400, FALSE, i + 1)

\* HTTPException(400, f"Missing chunk {i}. Upload incomplete.")
RespMissing(i) == Resp(400, FALSE, i)
RespProcessingFailed == Resp(500, FALSE, -1)

\* ---------------------------------------------------------------- requests
\* no retrieval tool has been called
IdleCall ==
  [mode |-> "none", pc |-> "idle", files |-> {}, limit |-> 0, alpha |-> 0,
   up |-> TRUE, started |-> <<>>, finished |-> {}, propagated |-> FALSE,
   result |-> <<>>]

IdleReq ==
  [pc |-> "idle", file_id |-> 0, file_name |-> NoName, chunk_index |-> 0,
   total_chunks |-> 0, body |-> <<>>, sent |-> 0, i |-> 0, content |-> <<>>,
   wrote |-> <<>>]

Active(r) == req[r].pc # "idle"

\* the slot a new request takes: slots are anonymous, the lowest idle one
FreeSlot(r) == /\ ~Active(r)
                /\ \A s \in Slots : s < r => Active(s)

\* the caller serializes the requests of the upload: none is under way
Quiet == \A r \in Slots : ~Active(r)

\* the requests the clients send: either at most NumSlots, overlapping at
\* will, or at most MaxReq, each sent after the one before has returned
\* (session.serial, "operations on the same upload_id must be externally
\* serialized by the caller")
Admit ==
  IF session.free
    THEN (session.serial => Quiet) /\ nreq < Cardinality(Submissions)
  ELSE IF session.serial THEN Quiet /\ nreq < MaxReq
  ELSE nreq < NumSlots

LogEntry(q, resp, out) ==
  [file_id |-> q.file_id, file_name |-> q.file_name,
   chunk_index |-> q.chunk_index, total_chunks |-> q.total_chunks,
   body |-> q.body, resp |-> resp, out |-> out]

\* the request of slot r returns resp; out is the merged file it leaves
Return(r, resp, out) ==
  /\ log' = Append(log, LogEntry(req[r], resp, out))
  /\ req' = [req EXCEPT ![r] = IdleReq]

\* no staging directory exists, no request is under way
NoUploads ==
  /\ chunks = [f \in AllIds |-> [i \in Indexes |-> NoFile]]
  /\ merged = [f \in AllIds |-> [n \in FileNames |-> NoFile]]
  /\ req    = [r \in Slots |-> IdleReq]
  /\ nreq   = 0
  /\ log    = <<>>

\* no retrieval tool and no deletion has been called
NoRetrieval ==
  /\ scall   = IdleCall
  /\ queries = <<>>

\* No staging directory exists and nothing is indexed.  session is the
\* upload the clients are sending: its x-file-id, x-filename and
\* x-total-chunks headers, the same in every request of the upload
\* ("file_name, declared_total_chunks: fixed at session start"), and
\* whether they wait for each response before the next request.
InitSession(serial) ==
  /\ session \in [file_id : FileIds, file_name : FileNames,
                  total_chunks : Totals, serial : {serial}, free : {FALSE}]
  /\ NoUploads
  /\ index  = <<>>
  /\ NoRetrieval

\* clients that do not wait for each other
Init == InitSession(FALSE)

\* clients that send one request at a time
InitSeq == InitSession(TRUE)

\* upload_chunks: "if not file_name: raise HTTPException(400)"
RejectNoFilename(r, fid) ==
  /\ FreeSlot(r)
  /\ Admit
  /\ nreq' = nreq + 1
  /\ log' = Append(log, LogEntry([IdleReq EXCEPT !.file_id = fid],
                                 RespNoFilename, <<>>))
  /\ UNCHANGED <<chunks, merged, index, req, session, svars>>

\* the chunk file opened without truncation ("r+b")
OpenChunk_keep(r, fid, name, idx, total, b) ==
  /\ FreeSlot(r)
  /\ Admit
  /\ nreq' = nreq + 1
  /\ req' = [req EXCEPT ![r] = [IdleReq EXCEPT !.pc = "write",
                                  !.file_id = fid, !.file_name = name,
                                  !.chunk_index = idx, !.total_chunks = total,
                                  !.body = b]]
  /\ chunks' = [chunks EXCEPT ![fid][idx] = [@ EXCEPT !.exists = TRUE]]
  /\ UNCHANGED <<merged, index, log, session, svars>>

\* upload_chunks calls upload_file_chunks, which opens chunk_path "wb":
\* the file is created or truncated, the handle's offset is 0
OpenChunk(r, fid, name, idx, total, b) ==
  /\ FreeSlot(r)
  /\ Admit
  /\ nreq' = nreq + 1
  /\ req' = [req EXCEPT ![r] = [IdleReq EXCEPT !.pc = "write",
                                  !.file_id = fid, !.file_name = name,
                                  !.chunk_index = idx, !.total_chunks = total,
                                  !.body = b]]
  /\ chunks' = [chunks EXCEPT ![fid][idx] = EmptyFile]
  /\ UNCHANGED <<merged, index, log, session, svars>>

\* the chunk written under a staging directory that is not keyed by the
\* upload identifier
WriteChunk_unkeyed(r) ==
  LET q == req[r] IN
  /\ q.pc = "write"
  /\ q.sent < Len(q.body)
  /\ chunks' = [f \in AllIds |->
                  [chunks[f] EXCEPT ![q.chunk_index] =
                     WriteAt(@, q.sent, <<q.body[q.sent + 1]>>)]]
  /\ req' = [req EXCEPT ![r].sent = q.sent + 1]
  /\ UNCHANGED <<merged, index, nreq, log, session, svars>>

\* "async for chunk in request.stream(): await f.write(chunk)", one piece
WriteChunk(r) ==
  LET q == req[r] IN
  /\ q.pc = "write"
  /\ q.sent < Len(q.body)
  /\ chunks' = [chunks EXCEPT ![q.file_id][q.chunk_index] =
                  WriteAt(@, q.sent, <<q.body[q.sent + 1]>>)]
  /\ req' = [req EXCEPT ![r].sent = q.sent + 1]
  /\ UNCHANGED <<merged, index, nreq, log, session, svars>>

IsLastChunk_when_all_present(q) ==
  \A i \in 0..(q.total_chunks - 1) : chunks[q.file_id][i].exists

\* "if chunk_index == total_chunks - 1"
IsLastChunk(q) == q.chunk_index = q.total_chunks - 1

\* the request that finds every chunk of the upload staged goes on to the
\* merge, whatever index it carries
FlushChunk_merges_when_complete(r) ==
  LET q == req[r] IN
  /\ q.pc = "write"
  /\ q.sent = Len(q.body)
  /\ IF IsLastChunk(q)
        \/ \A i \in 0..(q.total_chunks - 1) : chunks[q.file_id][i].exists
       THEN /\ req' = [req EXCEPT ![r].pc = "open_final"]
            /\ UNCHANGED log
       ELSE Return(r, RespPartial, <<>>)
  /\ UNCHANGED <<chunks, merged, index, nreq, session, svars>>

\* "await f.flush()", the handle is closed; a request that does not carry
\* the last index returns complete=False
FlushChunk(r) ==
  LET q == req[r] IN
  /\ q.pc = "write"
  /\ q.sent = Len(q.body)
  /\ IF IsLastChunk(q)
       THEN /\ req' = [req EXCEPT ![r].pc = "open_final"]
            /\ UNCHANGED log
       ELSE Return(r, RespPartial, <<>>)
  /\ UNCHANGED <<chunks, merged, index, nreq, session, svars>>

\* the merged file opened for appending ("ab")
OpenFinal_append(r) ==
  LET q == req[r] IN
  /\ q.pc = "open_final"
  /\ merged' = [merged EXCEPT ![q.file_id][q.file_name].exists = TRUE]
  /\ req' = [req EXCEPT ![r].pc = "read", ![r].i = 0,
                        ![r].wrote = merged[q.file_id][q.file_name].data]
  /\ UNCHANGED <<chunks, index, nreq, log, session, svars>>

\* "async with aiofiles.open(final_path, 'wb') as outfile"
OpenFinal(r) ==
  LET q == req[r] IN
  /\ q.pc = "open_final"
  /\ merged' = [merged EXCEPT ![q.file_id][q.file_name] = EmptyFile]
  /\ req' = [req EXCEPT ![r].pc = "read", ![r].i = 0, ![r].wrote = <<>>]
  /\ UNCHANGED <<chunks, index, nreq, log, session, svars>>

ChunkExists_unchecked(f, i) == TRUE

\* "if not os.path.exists(chunk_file)"
ChunkExists(f, i) == i \in Indexes /\ chunks[f][i].exists

chunk_file_descending(i, total) == total - 1 - i

\* "chunk_file = os.path.join(chunks_dir, f'chunk_{i}')": the chunk that
\* round i of the merge loop reads
chunk_file(i, total) == i

\* one round of "for i in range(total_chunks)" up to infile.read(): a
\* missing chunk raises HTTPException(400, "Missing chunk i") and leaves
\* the merged file as written so far
MergeRead(r) ==
  LET q == req[r] IN
  /\ q.pc = "read"
  /\ q.i < q.total_chunks
  /\ IF ChunkExists(q.file_id, chunk_file(q.i, q.total_chunks))
       THEN /\ req' = [req EXCEPT ![r].pc = "copy",
                         ![r].content =
                           chunks[q.file_id][chunk_file(q.i, q.total_chunks)].data]
            /\ UNCHANGED log
       ELSE Return(r, RespMissing(q.i), merged[q.file_id][q.file_name].data)
  /\ UNCHANGED <<chunks, merged, index, nreq, session, svars>>

\* the merge loop with its "os.remove(chunk_file)" in force
MergeWrite_remove(r) ==
  LET q == req[r] IN
  /\ q.pc = "copy"
  /\ merged' = [merged EXCEPT ![q.file_id][q.file_name] =
                  WriteAt(@, Len(q.wrote), q.content)]
  /\ chunks' = [chunks EXCEPT ![q.file_id][chunk_file(q.i, q.total_chunks)] =
                  NoFile]
  /\ req' = [req EXCEPT ![r].pc = IF q.i + 1 < q.total_chunks
                                    THEN "read" ELSE "process",
                        ![r].i = q.i + 1,
                        ![r].wrote = q.wrote \o q.content,
                        ![r].content = <<>>]
  /\ UNCHANGED <<index, nreq, log, session, svars>>

\* "await outfile.write(content); await outfile.flush()"; the chunk file
\* stays ("# os.remove(chunk_file)")
MergeWrite(r) ==
  LET q == req[r] IN
  /\ q.pc = "copy"
  /\ merged' = [merged EXCEPT ![q.file_id][q.file_name] =
                  WriteAt(@, Len(q.wrote), q.content)]
  /\ req' = [req EXCEPT ![r].pc = IF q.i + 1 < q.total_chunks
                                    THEN "read" ELSE "process",
                        ![r].i = q.i + 1,
                        ![r].wrote = q.wrote \o q.content,
                        ![r].content = <<>>]
  /\ UNCHANGED <<chunks, index, nreq, log, session, svars>>

\* core.qdrant.add_documents_to_qdrant: the passages of one document, all
\* tagged with its file_id, are added to the index
add_documents_to_qdrant(idx, doc) == Append(idx, doc)

\* the staging of the upload removed whatever the outcome
\* ("finally: shutil.rmtree(temp_dir, ignore_errors=True)")
ProcessFile_rmtree(r, ok) ==
  LET q   == req[r]
      out == merged[q.file_id][q.file_name].data
  IN
  /\ q.pc = "process"
  /\ IF ok /\ get_loader(q.file_name)
       THEN /\ index' = add_documents_to_qdrant(index,
                          [file_id |-> q.file_id, file_name |-> q.file_name,
                           text |-> out])
            /\ Return(r, RespComplete, out)
       ELSE /\ UNCHANGED index
            /\ Return(r, RespProcessingFailed, out)
  /\ chunks' = [chunks EXCEPT ![q.file_id] = [i \in Indexes |-> NoFile]]
  /\ merged' = [merged EXCEPT ![q.file_id] = [n \in FileNames |-> NoFile]]
  /\ UNCHANGED <<nreq, session, svars>>

\* process_file reads final_path and add_documents_to_qdrant indexes it;
\* any exception becomes HTTPException(500, "File processing failed")
ProcessFile(r, ok) ==
  LET q   == req[r]
      out == merged[q.file_id][q.file_name].data
  IN
  /\ q.pc = "process"
  /\ IF ok /\ get_loader(q.file_name)
       THEN /\ index' = add_documents_to_qdrant(index,
                          [file_id |-> q.file_id, file_name |-> q.file_name,
                           text |-> out])
            /\ Return(r, RespComplete, out)
       ELSE /\ UNCHANGED index
            /\ Return(r, RespProcessingFailed, out)
  /\ UNCHANGED <<chunks, merged, nreq, session, svars>>

Step(r) ==
  \/ WriteChunk(r)
  \/ FlushChunk(r)
  \/ OpenFinal(r)
  \/ MergeRead(r)
  \/ MergeWrite(r)
  \/ \E ok \in BOOLEAN : ProcessFile(r, ok)

\* a request of the upload arrives: with or without the x-filename header,
\* with any chunk index of the upload and any body
Submit(r) ==
  \/ RejectNoFilename(r, session.file_id)
  \/ \E idx \in 0..(session.total_chunks - 1), b \in Bodies :
       OpenChunk(r, session.file_id, session.file_name, idx,
                 session.total_chunks, b)

Next == \E r \in Slots : Submit(r) \/ Step(r)

\* NumSlots requests of any clients, interleaved at their awaits
Spec == Init /\ [][Next]_vars

\* MaxReq requests, one at a time
SeqSpec == InitSeq /\ [][Next]_vars

\* -------------------------------------------------------------- any headers
\* the identifier has not been used: nothing is staged under it and no
\* request carries or carried it
Fresh(u) ==
  /\ \A i \in Indexes : chunks[u][i] = NoFile
  /\ \A n \in FileNames : merged[u][n] = NoFile
  /\ \A r \in Slots : req[r].file_id # u
  /\ \A k \in DOMAIN log : log[k].file_id # u

\* the endpoint that generates the missing identifier before it looks at
\* the file name
upload_chunks_uuid_first(r, fid, name, idx, total, b) ==
  \/ /\ name = NoName
     /\ fid # NoId
     /\ RejectNoFilename(r, fid)
  \/ /\ name = NoName
     /\ fid = NoId
     /\ \E u \in Uuids : Fresh(u) /\ RejectNoFilename(r, u)
  \/ /\ name # NoName
     /\ fid # NoId
     /\ OpenChunk(r, fid, name, idx, total, b)
  \/ /\ name # NoName
     /\ fid = NoId
     /\ \E u \in Uuids : Fresh(u) /\ OpenChunk(r, u, name, idx, total, b)

\* upload_chunks: the headers are read, a request without file name is
\* refused, a request without identifier gets str(uuid.uuid4()), and the
\* chunk goes to upload_file_chunks
upload_chunks(r, fid, name, idx, total, b) ==
  \/ /\ name = NoName
     /\ RejectNoFilename(r, fid)
  \/ /\ name # NoName
     /\ fid # NoId
     /\ OpenChunk(r, fid, name, idx, total, b)
  \/ /\ name # NoName
     /\ fid = NoId
     /\ \E u \in Uuids : Fresh(u) /\ OpenChunk(r, u, name, idx, total, b)

\* a request arrives with whatever headers and body its client chose
SubmitAny(r) ==
  /\ FreeSlot(r)
  /\ Admit
  /\ \E fid \in FileIds \cup {NoId}, name \in FileNames \cup {NoName},
        idx \in Indexes, total \in Totals, b \in Bodies :
       upload_chunks(r, fid, name, idx, total, b)

\* a first and a later submission, each with headers of its own
InitFree ==
  /\ session = [file_id |-> 1, file_name |-> "a.txt", total_chunks |-> 1,
                serial |-> TRUE, free |-> TRUE]
  /\ NoUploads
  /\ index = <<>>
  /\ NoRetrieval

NextFree == \E r \in Slots : SubmitAny(r) \/ Step(r)

FreeSpec == InitFree /\ [][NextFree]_vars

\* a request of some upload arrives: it carries the identifier of a
\* client's upload or none (and gets a generated one), the file name and
\* the total of its upload, any index of it and any body
SubmitUpload(r) ==
  /\ FreeSlot(r)
  /\ Admit
  /\ \E fid \in FileIds \cup {NoId}, name \in {session.file_name, NoName},
        idx \in 0..(session.total_chunks - 1), b \in Bodies :
       upload_chunks(r, fid, name, idx, session.total_chunks, b)

\* two submissions of the same or of different uploads, overlapping at
\* will
InitUploads ==
  /\ session \in [file_id : FileIds, file_name : FileNames,
                  total_chunks : Totals, serial : {FALSE}, free : {TRUE}]
  /\ NoUploads
  /\ index = <<>>
  /\ NoRetrieval

NextUploads == \E r \in Slots : SubmitUpload(r) \/ Step(r)

UploadsSpec == InitUploads /\ [][NextUploads]_vars

\* ---------------------------------------------------------------- retrieval
\* uploaded_files.py: the tools read the upload ids of the conversation
\* from config["configurable"]["uploaded_files"] and query the index with
\* metadata_filter = {"file_id": files}.  The query text is the same in
\* every call; alpha is counted in tenths (5 is 0.5, 10 is 1.0).

Alphas == {-5, 0, 5, 10, 15}

Limits == 1..MaxDocs

\* the uploads the index holds passages of: those of the clients' ids and
\* one of a generated id
SearchIds == FileIds \cup {NumFiles + 1}

\* what process_file indexes: the file stamped with its upload id
Docs == [file_id : SearchIds, file_name : {"a.txt"}, text : Bodies]

\* the indexes that completed uploads leave behind
IndexStates == UNION {[1..n -> Docs] : n \in 0..MaxDocs}

\* the embedding similarity of a passage to the query
DenseScore(text) == IF text = <<>> THEN 0 ELSE text[1]

\* the term relevance of a passage to the query
SparseScore(text) == Len(text)

\* alpha * dense_score + (1 - alpha) * sparse_score, in tenths
Combined(doc, alpha) ==
  alpha * DenseScore(doc.text) + (10 - alpha) * SparseScore(doc.text)

\* a search result, and the element a tool returns for a failure
Item(doc, score) ==
  [error |-> FALSE, file_id |-> doc.file_id, text |-> doc.text,
   score |-> score]

ErrorItem == [error |-> TRUE, file_id |-> NoId, text |-> <<>>, score |-> 0]

\* a query sent to the index
Query(fn, k, alpha, filter) ==
  [fn |-> fn, k |-> k, alpha |-> alpha, filter |-> filter]

\* the passages a metadata filter {"file_id": filter} admits
Candidates(idx, filter) == {p \in DOMAIN idx : idx[p].file_id \in filter}

\* the first k of the candidates C in the order Before
TopK(idx, C, k, Before(_, _), Score(_)) ==
  LET n == IF Cardinality(C) < k THEN Cardinality(C) ELSE k
      At(m) == CHOOSE p \in C : Cardinality({q \in C : Before(q, p)}) = m - 1
  IN [m \in 1..n |-> Item(idx[At(m)], Score(idx[At(m)]))]

\* what a call into the index layer gives: it raised or it returned
\* results, and the queries it sent to the index
Raised(qs) == [raised |-> TRUE, results |-> <<>>, queries |-> qs]

Returned(rs, qs) == [raised |-> FALSE, results |-> rs, queries |-> qs]

\* core.qdrant.search_from_qdrant: "alpha outside [0,1] fails with
\* InvalidParameter"; candidates are "re-ranked by combined score; ties
\* broken by original dense rank"; up is whether the index answers
search_from_qdrant(idx, k, alpha, filter, up) ==
  LET q == Query("search", k, alpha, filter)
      C == Candidates(idx, filter)
      Before(a, b) ==
        \/ Combined(idx[a], alpha) > Combined(idx[b], alpha)
        \/ /\ Combined(idx[a], alpha) = Combined(idx[b], alpha)
           /\ \/ DenseScore(idx[a].text) > DenseScore(idx[b].text)
              \/ /\ DenseScore(idx[a].text) = DenseScore(idx[b].text)
                 /\ a < b
      Score(d) == Combined(d, alpha)
  IN IF alpha \notin 0..10 THEN Raised(<<>>)
     ELSE IF ~up THEN Raised(<<q>>)
     ELSE Returned(TopK(idx, C, k, Before, Score), <<q>>)

\* core.qdrant.keyword_search_from_qdrant: "matches ranked by keyword
\* relevance", under the same filter
keyword_search_from_qdrant(idx, limit, filter, up) ==
  LET q == Query("keyword", limit, 0, filter)
      C == Candidates(idx, filter)
      Before(a, b) ==
        \/ SparseScore(idx[a].text) > SparseScore(idx[b].text)
        \/ /\ SparseScore(idx[a].text) = SparseScore(idx[b].text)
           /\ a < b
      Score(d) == SparseScore(d.text)
  IN IF ~up THEN Raised(<<q>>)
     ELSE Returned(TopK(idx, C, limit, Before, Score), <<q>>)

\* what a tool gives its caller: a result, or the exception it let through
ToolReturn(o) ==
  [result |-> IF o.raised THEN <<ErrorItem>> ELSE o.results,
   queries |-> o.queries, propagated |-> FALSE]

NoFiles == [result |-> <<>>, queries |-> <<>>, propagated |-> FALSE]

\* the tool without its "if not files: return []"
dense_search_uploaded_files_unguarded(idx, files, limit, up) ==
  ToolReturn(search_from_qdrant(idx, limit, 10, files, up))

\* dense_search_uploaded_files: search_from_qdrant(alpha=1.0)
dense_search_uploaded_files(idx, files, limit, up) ==
  IF files = {} THEN NoFiles
  ELSE ToolReturn(search_from_qdrant(idx, limit, 10, files, up))

\* the tool that passes no metadata filter
sparse_search_uploaded_files_unscoped(idx, files, limit, up) ==
  IF files = {} THEN NoFiles
  ELSE ToolReturn(search_from_qdrant(idx, limit, 0, AllIds, up))

\* sparse_search_uploaded_files: search_from_qdrant(alpha=0.0)
sparse_search_uploaded_files(idx, files, limit, up) ==
  IF files = {} THEN NoFiles
  ELSE ToolReturn(search_from_qdrant(idx, limit, 0, files, up))

\* the tool that ignores its alpha and searches with the default 0.5
hybrid_search_uploaded_files_default_alpha(idx, files, limit, alpha, up) ==
  IF files = {} THEN NoFiles
  ELSE ToolReturn(search_from_qdrant(idx, limit, 5, files, up))

\* hybrid_search_uploaded_files: search_from_qdrant(alpha=alpha); the
\* tool itself does not look at alpha
hybrid_search_uploaded_files(idx, files, limit, alpha, up) ==
  IF files = {} THEN NoFiles
  ELSE ToolReturn(search_from_qdrant(idx, limit, alpha, files, up))

\* the tool without its "except Exception"
keyword_search_from_uploaded_files_uncaught(idx, files, limit, up) ==
  LET o == keyword_search_from_qdrant(idx, limit, files, up)
  IN IF files = {} THEN NoFiles
     ELSE [ToolReturn(o) EXCEPT !.propagated = o.raised]

\* keyword_search_from_uploaded_files: keyword_search_from_qdrant
keyword_search_from_uploaded_files(idx, files, limit, up) ==
  IF files = {} THEN NoFiles
  ELSE ToolReturn(keyword_search_from_qdrant(idx, limit, files, up))

\* a behaviour is one call of a tool or of the deletion endpoint on some
\* index: they keep no state of their own from one call to the next
CanCall == scall.pc = "idle"

\* a tool was called with these arguments and gave o
Called(mode, files, limit, alpha, up, o) ==
  /\ CanCall
  /\ scall' = [IdleCall EXCEPT !.mode = mode, !.pc = "done",
                               !.files = files, !.limit = limit,
                               !.alpha = alpha, !.up = up,
                               !.propagated = o.propagated,
                               !.result = o.result]
  /\ queries' = o.queries
  /\ UNCHANGED <<chunks, merged, index, req, nreq, log, session>>

HybridSearch(files, limit, alpha, up) ==
  Called("hybrid", files, limit, alpha, up,
         hybrid_search_uploaded_files(index, files, limit, alpha, up))

DenseSearch(files, limit, up) ==
  Called("dense", files, limit, 10, up,
         dense_search_uploaded_files(index, files, limit, up))

SparseSearch(files, limit, up) ==
  Called("sparse", files, limit, 0, up,
         sparse_search_uploaded_files(index, files, limit, up))

KeywordSearch(files, limit, up) ==
  Called("keyword", files, limit, 0, up,
         keyword_search_from_uploaded_files(index, files, limit, up))

\* the keys of the dict compare returns, in the order it evaluates them
Strategies ==
  <<"hybrid_search_uploaded_files", "dense_search_uploaded_files",
    "sparse_search_uploaded_files", "keyword_search_from_uploaded_files">>

StrategyNames == {Strategies[n] : n \in DOMAIN Strategies}

\* the n-th entry of the dict literal: the call compare makes for it
SubQuery(n, idx, files, limit, up) ==
  IF n = 1 THEN search_from_qdrant(idx, limit, 5, files, up)
  ELSE IF n = 2 THEN search_from_qdrant(idx, limit, 10, files, up)
  ELSE IF n = 3 THEN search_from_qdrant(idx, limit, 0, files, up)
  ELSE keyword_search_from_qdrant(idx, limit, files, up)

\* compare_search_methods_for_uploaded_files is called: without files it
\* returns four empty lists, otherwise it makes the call of the first
\* entry of the dict literal
CompareCall(files, limit) ==
  /\ CanCall
  /\ IF files = {}
       THEN /\ scall' = [IdleCall EXCEPT !.mode = "compare", !.pc = "done",
                           !.limit = limit,
                           !.result = [s \in StrategyNames |-> <<>>]]
            /\ queries' = <<>>
       ELSE /\ scall' = [IdleCall EXCEPT !.mode = "compare",
                           !.pc = "querying", !.files = files,
                           !.limit = limit, !.started = <<Strategies[1]>>]
            /\ queries' = SubQuery(1, index, files, limit, TRUE).queries
  /\ UNCHANGED <<chunks, merged, index, req, nreq, log, session>>

\* the call compare is waiting for returns or raises: a raise leaves the
\* dict literal for "except Exception", a return stores the entry and
\* makes the call of the next entry, or returns the dict after the last
CompareReturn(up) ==
  LET n == Len(scall.started)
      o == SubQuery(n, index, scall.files, scall.limit, up)
  IN
  /\ scall.pc = "querying"
  /\ IF o.raised
       THEN /\ scall' = [scall EXCEPT !.pc = "done", !.up = FALSE,
                           !.result = [s \in {"error"} |-> <<ErrorItem>>]]
            /\ UNCHANGED queries
       ELSE /\ scall' = [scall EXCEPT
                           !.pc = IF n = Len(Strategies) THEN "done"
                                  ELSE "querying",
                           !.finished = @ \cup {Strategies[n]},
                           !.started = IF n = Len(Strategies) THEN @
                                       ELSE Append(@, Strategies[n + 1]),
                           !.result = (Strategies[n] :> o.results) @@ @]
            /\ queries' =
                 IF n = Len(Strategies) THEN queries
                 ELSE queries \o SubQuery(n + 1, index, scall.files,
                                          scall.limit, TRUE).queries
  /\ UNCHANGED <<chunks, merged, index, req, nreq, log, session>>

\* core.qdrant.delete_uploaded_documents: "removes all records whose
\* file_id matches; no error if zero records match"
delete_uploaded_documents(idx, filter) ==
  LET Keep(d) == d.file_id \notin filter
  IN SelectSeq(idx, Keep)

\* the endpoint that deletes the passages of every upload
delete_uploaded_file_everything(idx, file_id) ==
  delete_uploaded_documents(idx, AllIds)

\* DELETE /upload/{file_id}:
\* delete_uploaded_documents({"file_id": file_id}), status 204
delete_uploaded_file(idx, file_id) ==
  delete_uploaded_documents(idx, {file_id})

DeleteUploadedFile(file_id) ==
  /\ CanCall
  /\ index' = delete_uploaded_file(index, file_id)
  /\ scall' = [IdleCall EXCEPT !.mode = "delete", !.pc = "done",
                               !.files = {file_id}, !.result = <<204>>]
  /\ queries' = <<>>
  /\ UNCHANGED <<chunks, merged, req, nreq, log, session>>

\* the tools and the deletion endpoint over an index that completed
\* uploads have filled; no upload is under way
InitSearch ==
  /\ session = [file_id |-> 1, file_name |-> "a.txt", total_chunks |-> 1,
                serial |-> TRUE, free |-> FALSE]
  /\ NoUploads
  /\ index \in IndexStates
  /\ NoRetrieval

NextSearch ==
  \/ \E files \in SUBSET SearchIds, limit \in Limits, up \in BOOLEAN :
       \/ \E alpha \in Alphas : HybridSearch(files, limit, alpha, up)
       \/ DenseSearch(files, limit, up)
       \/ SparseSearch(files, limit, up)
       \/ KeywordSearch(files, limit, up)
  \/ \E files \in SUBSET SearchIds, limit \in Limits : CompareCall(files, limit)
  \/ \E up \in BOOLEAN : CompareReturn(up)
  \/ \E file_id \in SearchIds : DeleteUploadedFile(file_id)

SearchSpec == InitSearch /\ [][NextSearch]_vars

\* ---------------------------------------------------------------- history
\* log holds one entry per returned request, in the order of the returns;
\* under SeqSpec that is also the order of the arrivals and of the writes

Accepted(e) == e.file_name # NoName

\* the merge loop of the request ran to its end
MergeDone(e) == e.resp \in {RespComplete, RespProcessingFailed}

SetMax(S) == CHOOSE x \in S : \A y \in S : y <= x

SetMin(S) == CHOOSE x \in S : \A y \in S : x <= y

\* the requests among the first k that wrote chunk i of upload f
Writes(k, f, i) ==
  {j \in 1..k : /\ log[j].file_id = f
                /\ Accepted(log[j])
                /\ log[j].chunk_index = i}

\* the body of the last of them
ChunkAt(k, f, i) == log[SetMax(Writes(k, f, i))].body

RECURSIVE ConcatAt(_, _, _)
\* chunk 0, chunk 1, ..., chunk n-1 of upload f as last written by the
\* first k requests
ConcatAt(k, f, n) ==
  IF n = 0 THEN <<>> ELSE ConcatAt(k, f, n - 1) \o ChunkAt(k, f, n - 1)

RECURSIVE ConcatChunks(_, _)
\* chunk_0 .. chunk_(n-1) of upload f as they are on disk now
ConcatChunks(f, n) ==
  IF n = 0 THEN <<>> ELSE ConcatChunks(f, n - 1) \o chunks[f][n - 1].data

Entries == 1..Len(log)

\* ---------------------------------------------------------------- C1
\* C1: with the requests of an upload arriving one at a time in any order,
\* a merged file that a request produces is the concatenation of chunk 0,
\* chunk 1, ..., chunk N-1 (each as last written) in ascending index order.
C1_MergeInIndexOrder ==
  \A k \in Entries :
    LET e == log[k] IN
    MergeDone(e) =>
      /\ \A i \in 0..(e.total_chunks - 1) : Writes(k, e.file_id, i) # {}
      /\ e.out = ConcatAt(k, e.file_id, e.total_chunks)
      /\ Quiet /\ k = Len(log) =>
           merged[e.file_id][e.file_name] = [exists |-> TRUE, data |-> e.out]

\* chunks 1, 0, 2 of a three-chunk upload arrived in that order and the
\* third request merged them
C1_Witness ==
  /\ Len(log) = 3
  /\ log[1].chunk_index = 1 /\ log[2].chunk_index = 0 /\ log[3].chunk_index = 2
  /\ \A k \in 1..3 : log[k].total_chunks = 3
  /\ log[1].body = <<3>> /\ log[2].body = <<1, 2>> /\ log[3].body = <<3>>
  /\ log[3].resp = RespComplete
  /\ log[3].out = <<1, 2, 3, 3>>
  /\ Quiet

\* ---------------------------------------------------------------- C2
\* the accepted chunk submissions of upload f
Subs(f) == {k \in Entries : log[k].file_id = f /\ Accepted(log[k])}

\* every chunk 0..N-1 of upload f was submitted exactly once, each time
\* with total N, and nothing else was submitted for f
OnceEach(f, N) ==
  /\ Subs(f) # {}
  /\ \A k \in Subs(f) : /\ log[k].total_chunks = N
                        /\ log[k].chunk_index \in 0..(N - 1)
  /\ \A i \in 0..(N - 1) : Cardinality(Writes(Len(log), f, i)) = 1

\* C2 as claimed: whatever the arrival order of chunks 0..N-1, each sent
\* once, the request whose write makes all N present (the last to arrive)
\* returns complete: true (a parsing or indexing failure aside).
C2_AnyOrderCompletes ==
  \A f \in FileIds, N \in Totals :
    (Quiet /\ OnceEach(f, N)
       /\ \A k \in Subs(f) : log[k].resp # RespProcessingFailed)
      => log[SetMax(Subs(f))].resp = RespComplete

\* C2 as amended: with chunks 0..N-1 each sent once, one request at a time,
\* only the request carrying index N-1 can return complete: true, and it
\* does so (or reports the processing failure) exactly when it arrives
\* last; arriving earlier it fails on the lowest chunk still missing, and
\* every other request returns complete: false.
C2_LastIndexLastCompletes ==
  \A f \in FileIds, N \in Totals :
    (Quiet /\ OnceEach(f, N)) =>
      LET t    == SetMax(Writes(Len(log), f, N - 1))
          miss == {i \in 0..(N - 1) : Writes(t, f, i) = {}}
      IN  /\ \A k \in Subs(f) \ {t} : log[k].resp = RespPartial
          /\ IF t = SetMax(Subs(f))
               THEN MergeDone(log[t])
               ELSE /\ log[t].resp.status = 400
                    /\ log[t].resp.missing = SetMin(miss)

\* chunks 0, 1, 2 of three arrived in order and the third request returned
\* complete: true
C2_Witness ==
  /\ Quiet
  /\ OnceEach(1, 3)
  /\ Len(log) = 3
  /\ \A k \in 1..3 : log[k].chunk_index = k - 1
  /\ log[3].resp = RespComplete

\* ---------------------------------------------------------------- C3
\* C3: a request returns complete: true only with status 200 and only if
\* every index in [0, total_chunks) of its upload has a chunk file in the
\* staging area; with any index absent a normal return carries
\* complete: false.  (Chunk files are never removed, so a chunk present at
\* the return is present in every later state.)
C3_CompleteOnlyIfAllPresent ==
  \A k \in Entries :
    LET e == log[k] IN
    /\ e.resp.complete =>
         /\ e.resp.status = 200
         /\ \A i \in 0..(e.total_chunks - 1) : chunks[e.file_id][i].exists
    /\ (e.resp.status = 200 /\ Accepted(e)
          /\ \E i \in 0..(e.total_chunks - 1) : ~chunks[e.file_id][i].exists)
         => e.resp = RespPartial

\* chunk 0 of two returned complete: false, then chunk 1 of two returned
\* complete: true
C3_Witness ==
  /\ Len(log) = 2
  /\ log[1].chunk_index = 0 /\ log[1].total_chunks = 2
  /\ log[1].resp = RespPartial
  /\ log[2].chunk_index = 1 /\ log[2].total_chunks = 2
  /\ log[2].resp = RespComplete

\* ---------------------------------------------------------------- C4
\* the indexes of [0, total_chunks) that request k found no chunk for
MissingAt(k) ==
  {i \in 0..(log[k].total_chunks - 1) : Writes(k, log[k].file_id, i) = {}}

\* C4: a request carrying the last index, served alone, fails with
\* "Missing chunk i" exactly when some index of [0, total_chunks) has no
\* chunk, and i is then the lowest such index; with every chunk supplied
\* the merge runs to its end.
C4_LowestMissingNamed ==
  \A k \in Entries :
    LET e == log[k] IN
    (Accepted(e) /\ IsLastChunk(e)) =>
      /\ IF MissingAt(k) # {}
           THEN /\ e.resp.status = 400
                /\ e.resp.missing = SetMin(MissingAt(k))
           ELSE MergeDone(e)
      /\ (Quiet /\ k = Len(log)) =>
           MissingAt(k) = {i \in 0..(e.total_chunks - 1) :
                             ~chunks[e.file_id][i].exists}

\* chunk 1 of two failed on the missing chunk 0, chunk 0 was supplied and
\* chunk 1, sent again, merged
C4_Witness ==
  /\ Quiet
  /\ Len(log) = 3
  /\ log[1].chunk_index = 1 /\ log[1].total_chunks = 2
  /\ log[1].resp.status = 400 /\ log[1].resp.missing = 0
  /\ log[2].chunk_index = 0 /\ log[2].resp = RespPartial
  /\ log[3].chunk_index = 1 /\ log[3].total_chunks = 2
  /\ log[3].resp = RespComplete

\* ---------------------------------------------------------------- C5
\* C5 as claimed: over any sequence of chunk submissions of one upload at
\* most one response carries complete: true and at most one merged
\* document of the upload is indexed.
C5_CompleteAtMostOnce ==
  \A f \in FileIds :
    /\ Cardinality({k \in Entries : /\ log[k].file_id = f
                                    /\ log[k].resp = RespComplete}) <= 1
    /\ Cardinality({d \in 1..Len(index) : index[d].file_id = f}) <= 1

\* ---------------------------------------------------------------- C6
\* C6 as claimed: whatever other requests are doing, the bytes a merge
\* reads for a chunk are the whole body of one completed write of that
\* chunk, never a part of a body still being streamed.
C6_MergeReadsWholeChunks ==
  \A r \in Slots : req[r].pc = "copy" => req[r].content \in Bodies

\* ---------------------------------------------------------------- C7
\* C7 as claimed: with two merges of one upload under way, a request that
\* has copied every chunk (and copied what the chunk files hold) finds, when
\* it goes on to parse, the merged file equal to that concatenation.
C7_ConcurrentMergesSafe ==
  \A r \in Slots :
    LET q == req[r] IN
    (q.pc = "process" /\ q.wrote = ConcatChunks(q.file_id, q.total_chunks))
      => merged[q.file_id][q.file_name].data = q.wrote

\* ---------------------------------------------------------------- C8
\* C8: two merges of one upload into the same file, run one after the
\* other over chunks holding the same bytes, leave the same merged bytes.
C8_MergeIdempotent ==
  \A j \in Entries, k \in Entries :
    LET a == log[j]
        b == log[k]
    IN  ( /\ j < k
          /\ MergeDone(a) /\ MergeDone(b)
          /\ a.file_id = b.file_id /\ a.file_name = b.file_name
          /\ a.total_chunks = b.total_chunks
          /\ \A i \in 0..(a.total_chunks - 1) :
               ChunkAt(j, a.file_id, i) = ChunkAt(k, a.file_id, i) )
        => a.out = b.out

\* a two-byte single-chunk upload merged twice, the chunk sent again with
\* the same bytes
C8_Witness ==
  /\ Quiet
  /\ Len(log) = 2
  /\ \A k \in 1..2 : /\ log[k].chunk_index = 0 /\ log[k].total_chunks = 1
                     /\ log[k].body = <<1, 2>>
                     /\ MergeDone(log[k])
  /\ log[2].out = <<1, 2>>
  /\ merged[1]["a.txt"].data = <<1, 2>>

\* ---------------------------------------------------------------- C9
RECURSIVE SumLen(_, _, _)
SumLen(k, f, n) ==
  IF n = 0 THEN 0 ELSE SumLen(k, f, n - 1) + Len(ChunkAt(k, f, n - 1))

\* C9: after any sequence of chunk writes the staging area holds for each
\* index exactly the bytes of the last write of that index (and no chunk
\* for an index never written), and a merge holds as many bytes as those
\* chunks together.
C9_LastWriteWins ==
  Quiet =>
    /\ \A f \in FileIds, i \in Indexes :
         chunks[f][i] = IF Writes(Len(log), f, i) = {}
                          THEN NoFile
                          ELSE [exists |-> TRUE,
                                data |-> ChunkAt(Len(log), f, i)]
    /\ \A k \in Entries :
         MergeDone(log[k]) =>
           Len(log[k].out) = SumLen(k, log[k].file_id, log[k].total_chunks)

\* chunk 0 written with two bytes, then again with one byte, and merged
C9_Witness ==
  /\ Quiet
  /\ Len(log) = 2
  /\ \A k \in 1..2 : log[k].chunk_index = 0 /\ log[k].total_chunks = 1
  /\ log[1].body = <<1, 2>> /\ log[2].body = <<3>>
  /\ chunks[1][0].data = <<3>>
  /\ MergeDone(log[2]) /\ log[2].out = <<3>>

\* ---------------------------------------------------------------- C10
\* C10: the step in which parsing or indexing fails (nothing is indexed)
\* ends the request with the 500 "File processing failed" and leaves the
\* merged file and every staged chunk of the upload in place and unchanged.
C10_FailedIngestKeepsStaging ==
  [][ \A r \in Slots :
        LET q == req[r] IN
        (q.pc = "process" /\ req'[r].pc # "process" /\ index' = index) =>
          /\ log'[Len(log')].resp.status = 500
          /\ log'[Len(log')].resp.complete = FALSE
          /\ merged' = merged
          /\ chunks' = chunks
          /\ merged[q.file_id][q.file_name].exists
          /\ \A i \in 0..(q.total_chunks - 1) : chunks[q.file_id][i].exists
    ]_vars

\* a two-chunk upload merged into a file of an unsupported type: the
\* request got the 500, the merged file and both chunks are on disk
C10_Witness ==
  /\ Quiet
  /\ Len(log) = 2
  /\ log[2].resp = RespProcessingFailed
  /\ log[2].file_name = "b.bin" /\ log[2].total_chunks = 2
  /\ merged[1]["b.bin"] = [exists |-> TRUE, data |-> log[2].out]
  /\ log[2].out = ConcatChunks(1, 2)
  /\ Len(log[2].out) >= 2
  /\ index = <<>>

\* ------------------------------------------------------- retrieval claims
\* the tools a conversation can call
SingleModes == {"hybrid", "dense", "sparse", "keyword"}

Modes == SingleModes \cup {"compare"}

\* the passages of the uploads in files, in the order of the index
Scoped(idx, files) ==
  LET In(d) == d.file_id \in files
  IN SelectSeq(idx, In)

\* what the index answers to the query of the call scall records
IndexAnswer(idx) ==
  IF scall.mode = "keyword"
    THEN keyword_search_from_qdrant(idx, scall.limit, scall.files, scall.up)
    ELSE search_from_qdrant(idx, scall.limit, scall.alpha, scall.files,
                            scall.up)

\* C11: a retrieval tool (hybrid, dense, sparse, keyword, compare) called
\* when the conversation has no uploaded files returns an empty result
\* (compare: four empty results) and sends no query to the index.
C11_NoFilesNoQuery ==
  (scall.pc = "done" /\ scall.mode \in Modes /\ scall.files = {}) =>
    /\ queries = <<>>
    /\ ~scall.propagated
    /\ IF scall.mode = "compare"
         THEN /\ DOMAIN scall.result = StrategyNames
              /\ \A s \in StrategyNames : scall.result[s] = <<>>
         ELSE scall.result = <<>>

C11_Witness ==
  /\ scall.pc = "done"
  /\ scall.mode = "dense"
  /\ scall.files = {}
  /\ index # <<>>
  /\ queries = <<>>

\* C12: compare returns exactly four results keyed by the strategy names,
\* also when one of its queries raises: the entry of the failing strategy
\* holds the error element and the other three hold their results.
C12_CompareAlwaysFourResults ==
  (scall.mode = "compare" /\ scall.pc = "done") =>
    /\ DOMAIN scall.result = StrategyNames
    /\ \A s \in StrategyNames :
         scall.result[s] = <<ErrorItem>> => s \notin scall.finished

ResultLists ==
  IF scall.mode = "compare"
    THEN {scall.result[s] : s \in DOMAIN scall.result}
    ELSE {scall.result}

\* C14: every query a retrieval tool sends is filtered by exactly the
\* uploaded files of the conversation; no result is a passage of another
\* upload, and the result is what the same call gives on an index that
\* holds the passages of those uploads only.
C14_ScopedToUploadedFiles ==
  (scall.pc \in {"querying", "done"} /\ scall.mode \in Modes) =>
    /\ \A n \in DOMAIN queries : queries[n].filter = scall.files
    /\ \A rs \in ResultLists : \A n \in DOMAIN rs :
         rs[n].error \/ rs[n].file_id \in scall.files
    /\ (scall.mode \in SingleModes /\ scall.files # {}
        /\ ~IndexAnswer(index).raised) =>
         scall.result = IndexAnswer(Scoped(index, scall.files)).results

C14_Witness ==
  /\ scall.pc = "done"
  /\ scall.mode = "sparse"
  /\ scall.up
  /\ scall.limit = MaxDocs
  /\ Len(scall.result) = 1
  /\ Len(index) = MaxDocs
  /\ \E p \in DOMAIN index : index[p].file_id \notin scall.files

\* C15: on the same index, with the same uploaded files and limit, hybrid
\* with alpha = 1.0 returns what dense returns and hybrid with alpha = 0.0
\* returns what sparse returns.
C15_HybridEndsAreDenseAndSparse ==
  /\ (scall.pc = "done" /\ scall.mode = "hybrid" /\ scall.alpha = 10) =>
       scall.result = dense_search_uploaded_files(
                        index, scall.files, scall.limit, scall.up).result
  /\ (scall.pc = "done" /\ scall.mode = "hybrid" /\ scall.alpha = 0) =>
       scall.result = sparse_search_uploaded_files(
                        index, scall.files, scall.limit, scall.up).result
  /\ (scall.pc = "done" /\ scall.mode = "dense") =>
       scall.result = hybrid_search_uploaded_files(
                        index, scall.files, scall.limit, 10, scall.up).result
  /\ (scall.pc = "done" /\ scall.mode = "sparse") =>
       scall.result = hybrid_search_uploaded_files(
                        index, scall.files, scall.limit, 0, scall.up).result

C15_Witness ==
  /\ scall.pc = "done"
  /\ scall.mode = "hybrid"
  /\ scall.alpha = 10
  /\ scall.up
  /\ Len(scall.result) = MaxDocs
  /\ scall.result # sparse_search_uploaded_files(
                      index, scall.files, scall.limit, scall.up).result

\* C16: hybrid called with an alpha outside [0, 1] fails with an
\* invalid-parameter error and sends no query to the index.
C16_BadAlphaFails ==
  (scall.pc = "done" /\ scall.mode = "hybrid" /\ scall.alpha \notin 0..10) =>
    /\ scall.result = <<ErrorItem>>
    /\ queries = <<>>

\* C17: compare starts its four queries without waiting for any of them
\* to finish, and returns after all four have finished.
C17_CompareStartsAllFour ==
  (scall.mode = "compare" /\ scall.files # {}) =>
    /\ scall.finished # {} => Len(scall.started) = Len(Strategies)
    /\ scall.pc = "done" => scall.finished = StrategyNames

\* C18: deleting an upload id removes every indexed passage of that id
\* and no other; when the id has no passage the index is left as it is;
\* either way the endpoint answers 204.
C18_DeleteRemovesExactlyTheUpload ==
  [][(scall'.mode = "delete" /\ scall.mode # "delete") =>
       \E f \in scall'.files :
         /\ scall'.files = {f}
         /\ \A p \in DOMAIN index' : index'[p].file_id # f
         /\ Scoped(index', SearchIds \ {f}) = Scoped(index, SearchIds \ {f})
         /\ Scoped(index, {f}) = <<>> => index' = index
         /\ scall'.result = <<204>>]_vars

C18_Witness ==
  /\ scall.mode = "delete"
  /\ index # <<>>
  /\ Len(index) < MaxDocs

\* ---------------------------------------------------------- header claims
\* the first accepted request of upload f to return
FirstOf(f) ==
  log[SetMin({k \in Entries : log[k].file_id = f /\ Accepted(log[k])})]

C20_FirstSubmissionFixesTotalAndName ==
  \A k \in Entries :
    (Accepted(log[k]) /\ MergeDone(log[k])) =>
      LET f     == log[k].file_id
          first == FirstOf(f)
      IN /\ log[k].file_name = first.file_name
         /\ \A i \in 0..(first.total_chunks - 1) : Writes(k, f, i) # {}
         /\ log[k].out = ConcatAt(k, f, first.total_chunks)

\* ------------------------------------------------------- staging claims
\* the request asked for the merge: it carried the last index
Triggered(e) == Accepted(e) /\ e.chunk_index = e.total_chunks - 1

\* C21: when an upload has been merged and a later request of the upload,
\* served after it, triggers the merge again, then whether that merge
\* runs to its end or stops at a missing chunk the merged file is left
\* holding the whole concatenation chunk 0 .. chunk N-1 as last written,
\* never an empty or shorter file.
C21_RemergeKeepsMergedFile ==
  \A j \in Entries :
    LET k == Len(log)
        f == log[k].file_id
        N == log[j].total_chunks
    IN  ( /\ Quiet
          /\ j < k
          /\ MergeDone(log[j])
          /\ Triggered(log[k])
          /\ log[j].file_id = f
          /\ log[j].file_name = log[k].file_name )
        => /\ merged[f][log[k].file_name].exists
           /\ merged[f][log[k].file_name].data = ConcatAt(k, f, N)
           /\ merged[f][log[k].file_name].data = ConcatChunks(f, N)
           /\ Len(merged[f][log[k].file_name].data) >= N

\* a two-chunk upload merged, then its last chunk sent again with other
\* bytes and merged again
C21_Witness ==
  /\ Quiet
  /\ Len(log) = 3
  /\ log[1].chunk_index = 0 /\ log[1].body = <<1, 2>>
  /\ log[2].chunk_index = 1 /\ log[2].body = <<3>>
  /\ log[3].chunk_index = 1 /\ log[3].body = <<1, 2>>
  /\ MergeDone(log[2]) /\ log[2].out = <<1, 2, 3>>
  /\ merged[1][log[3].file_name].data = <<1, 2, 1, 2>>

\* the upload has nothing staged: no chunk file is on disk
StagingRemoved(c, f) == \A i \in Indexes : c[f][i] = NoFile

\* C22: the step in which a request ends with complete: true (the merge
\* and the ingest succeeded) removes the staged chunks of its upload; the
\* step in which a request ends with the missing-chunk error or with the
\* processing failure leaves them in place.
C22_StagingRemovedOnSuccess ==
  [][ Len(log') > Len(log) =>
        LET e == log'[Len(log')] IN
        /\ e.resp = RespComplete => StagingRemoved(chunks', e.file_id)
        /\ (Accepted(e) /\ e.resp.status # 200) =>
             /\ chunks' = chunks
             /\ ~StagingRemoved(chunks', e.file_id)
    ]_vars

\* the request is past its chunk write: it merges or it parses and indexes
Merging(q) == q.pc \in {"open_final", "read", "copy", "process"}

\* C23: a request whose index is not total - 1 never merges, never parses
\* and never writes to the index, and returns complete: false, also when
\* its write completes the set of chunks; every write to the index is the
\* last step of a request that carries index total - 1 and has copied all
\* the chunks of its total into the merged file.
C23_OnlyLastIndexMerges ==
  [][ /\ \A r \in Slots :
           (Active(r)' /\ req'[r].chunk_index # req'[r].total_chunks - 1)
             => ~Merging(req'[r])
      /\ \A r \in Slots :
           ( /\ Active(r) /\ ~Active(r)'
             /\ req[r].chunk_index # req[r].total_chunks - 1 )
             => /\ log'[Len(log')].resp = [status |-> 200,
                                           complete |-> FALSE,
                                           missing |-> -1]
                /\ log'[Len(log')].chunk_index = req[r].chunk_index
                /\ merged' = merged
                /\ index' = index
      /\ index' # index =>
           \E r \in Slots :
             /\ req[r].pc = "process" /\ ~Active(r)'
             /\ req[r].chunk_index = req[r].total_chunks - 1
             /\ req[r].i = req[r].total_chunks
             /\ Len(index') = Len(index) + 1
             /\ index'[Len(index')].file_id = req[r].file_id
    ]_vars

\* the last index of a two-chunk upload was refused for chunk 0 missing;
\* then chunk 0 arrived, completed the set, and got complete: false:
\* nothing is merged into a whole file and nothing is indexed
C23_Witness ==
  /\ Quiet
  /\ Len(log) = 2
  /\ log[1].chunk_index = 1 /\ log[1].total_chunks = 2
  /\ log[1].resp.status = 400
  /\ log[2].chunk_index = 0 /\ log[2].total_chunks = 2
  /\ log[2].resp.complete = FALSE /\ log[2].resp.status = 200
  /\ \A i \in 0..1 : chunks[log[2].file_id][i].exists
  /\ index = <<>>

\* the upload the request of slot r belongs to, in the step it takes
UploadOf(r) == IF Active(r) THEN req[r].file_id ELSE req'[r].file_id

====
